---- MODULE Spec2Model ----
(***************************************************************************)
(* The document ingestion pipeline of financial-reporter:                  *)
(*   backend/app/api/api_v1/endpoints/reports.py   (handlers and stages)   *)
(*   backend/app/services/firebase_service.py      (record store adapter)  *)
(*   backend/app/services/pdf_processor.py         (summarization)         *)
(*                                                                         *)
(* The server is one cooperative event loop: the code between two          *)
(* suspending awaits runs without interruption, so every action below is   *)
(* one such stretch of a handler or of a background task.  An `await` of a  *)
(* coroutine that never suspends (update_report_status,                    *)
(* update_report_analysis, analyze_with_ai) is part of the stretch.        *)
(***************************************************************************)
EXTENDS Integers, Sequences, FiniteSets, TLC

(***************************************************************************)
(* Sizes are counted in chunks of chunk_size bytes (256 KB), and the byte  *)
(* thresholds of the code are scaled down keeping their order:             *)
(*   chunk_size < progress interval <= large-file threshold < limit.       *)
(***************************************************************************)
chunk_size == 1
ProgressEvery == 2
LargeThreshold == 2
max_file_size == 3

\* Bounds of the model.
MaxPages == 6
MaxRequests == 2

\* One document id (uuid4 gives every upload a fresh id; documents share no
\* state but the containers they are stored in).
Ids == {"r1"}

NoVal == "none"
NoNum == -1

\* str(e) of the AttributeError raised inside update_report_status, whose
\* parameter `status` shadows fastapi's `status` module.
AttrErrorMsg == "'str' object has no attribute"
ExtractErrorMsg == "extraction error"
WriteErrorMsg == "text write error"
NoTextMsg == "No text available for analysis"
ClientErrorMsg == "client error"
ExtractingMsg == "Extracting text from PDF"
BreakingMsg == "Breaking large PDF into sections"
SectionMsg == "Processing section"
PageMsg == "Extracting page"
AnalyzingMsg == "Analyzing document content"

valid_statuses == {"processing", "completed", "failed", "uploaded", "extracted"}

\* The states of the status machine (spec section 4.4).
DefinedStatuses ==
    {"uploading", "uploaded", "processing", "extracted", "analyzing",
     "completed", "failed"}

TerminalStatuses == {"completed", "failed"}

VARIABLES
    db,            \* TRUE: remote store (Firestore); FALSE: mock_reports
    obj,           \* the dict objects an upload creates: P = progress_report, R = report
    REPORTS,       \* the module-level list: a sequence of references to dict objects
    mock_reports,  \* mock store: id -> reference to the dict object saved
    docs,          \* remote store: id -> document (a value of its own)
    disk,          \* the files that exist: <<id, "pdf">>, <<id, "txt">>
    up,            \* the upload handler of each id: pc, file_size, response code
    ext,           \* the extract_text_only task of each id
    large,         \* the process_large_pdf_in_sections task of each id
    an,            \* the analyze_pdf_async tasks of each id that are scheduled
    resp,          \* the last response to a request other than an accepted upload
    reqs,          \* the requests served so far, the accepted uploads aside
    ai,            \* the last call of PDFProcessor.analyze_with_ai
    textdoc,       \* the extracted_text of one remote document and its text_chunks
    adapters       \* a mock and a remote adapter given the same calls, and their results

vars == <<db, obj, REPORTS, mock_reports, docs, disk, up, ext, large, an, resp, reqs, ai, textdoc, adapters>>

pipeline_vars == <<db, obj, REPORTS, mock_reports, docs, disk, up, ext, large, an, resp, reqs>>

(***************************************************************************)
(* Dict objects.  A key that is absent holds NoVal (NoNum for a number).   *)
(***************************************************************************)
Blank ==
    [status |-> NoVal, error |-> NoVal, analysis |-> NoVal,
     progress |-> NoNum, file_size_mb |-> NoNum, page_count |-> NoNum,
     sections_processed |-> NoNum]

\* dict.update(upd): the keys of upd overwrite, the others stay.
Merge(rec, upd) ==
    [f \in DOMAIN rec |-> IF f \in DOMAIN upd THEN upd[f] ELSE rec[f]]

Ref(id, o) == [id |-> id, o |-> o]

Deref(h, ref) == h.obj[ref.id][ref.o]

\* Mutation of the object a reference names: seen through every alias.
Mutate(h, ref, upd) ==
    [h EXCEPT !.obj[ref.id][ref.o] = Merge(@, upd)]

\* The containers as one value, so that the calls of one handler compose.
Heap ==
    [db |-> db, obj |-> obj, REPORTS |-> REPORTS,
     mock_reports |-> mock_reports, docs |-> docs]

SetHeap(h) ==
    /\ db' = h.db
    /\ obj' = h.obj
    /\ REPORTS' = h.REPORTS
    /\ mock_reports' = h.mock_reports
    /\ docs' = h.docs

\* next((r for r in REPORTS if r["id"] == report_id), None): index or 0.
FindInReports(h, id) ==
    LET hits == {i \in 1..Len(h.REPORTS) : h.REPORTS[i].id = id}
    IN IF hits = {} THEN 0 ELSE CHOOSE i \in hits : \A j \in hits : i <= j

RemoveAt(s, i) == SubSeq(s, 1, i - 1) \o SubSeq(s, i + 1, Len(s))

Restrict(f, S) == [x \in S |-> f[x]]

(***************************************************************************)
(* FirebaseService                                                         *)
(***************************************************************************)
\* save_report: the mock keeps the caller's dict itself, the remote store a copy.
FS_save_report(h, id, ref) ==
    IF h.db
    THEN [h EXCEPT !.docs = (id :> Deref(h, ref)) @@ @]
    ELSE [h EXCEPT !.mock_reports = (id :> ref) @@ @]

FS_exists(h, id) ==
    IF h.db THEN id \in DOMAIN h.docs ELSE id \in DOMAIN h.mock_reports

\* update_report: True iff the record exists (a remote update of an absent
\* document raises NotFound, which the adapter turns into False).
FS_update_ok(h, id) == FS_exists(h, id)

FS_update_report(h, id, upd) ==
    IF ~FS_exists(h, id) THEN h
    ELSE IF h.db
    THEN [h EXCEPT !.docs[id] = Merge(@, upd)]
    ELSE Mutate(h, h.mock_reports[id], upd)

\* get_report: the mock returns the stored dict itself, the remote store a
\* fresh dict (doc.to_dict()).
FS_get_report(h, id) ==
    IF h.db THEN h.docs[id] ELSE Deref(h, h.mock_reports[id])

\* A delete that leaves the store as it is.
FS_delete_nothing(h, id) == h

FS_delete_report(h, id) ==
    IF h.db
    THEN [h EXCEPT !.docs = Restrict(@, DOMAIN @ \ {id})]
    ELSE [h EXCEPT !.mock_reports = Restrict(@, DOMAIN @ \ {id})]

\* delete_report: the remote delete of an absent document succeeds, the mock
\* returns False for an absent id.
FS_delete_ok(h, id) == IF h.db THEN TRUE ELSE id \in DOMAIN h.mock_reports

\* get_all_reports: both modes build new dicts.
FS_get_all_reports(h) ==
    IF h.db THEN h.docs ELSE [id \in DOMAIN h.mock_reports |-> Deref(h, h.mock_reports[id])]

Min(a, b) == IF a < b THEN a ELSE b

Max(a, b) == IF a > b THEN a ELSE b

(***************************************************************************)
(* FirebaseService.update_report with an extracted_text, remote store, and *)
(* FirebaseService.get_full_text.  A text is a sequence of characters; the *)
(* lengths of the code are scaled down keeping their order:                *)
(*   summary side < piece < overflow limit < two pieces.                   *)
(***************************************************************************)
SummaryLen == 1
text_chunk_size == 3
OverflowLimit == 4

MaxTextLen == 7
MaxWrites == 2

Chars == {"a", "b"}

Texts == UNION {[1..n -> Chars] : n \in 0..MaxTextLen}

\* "... [TEXT TRUNCATED DUE TO SIZE] ..."
TruncationMarker == <<"~">>

\* full_text[:k] and full_text[-k:]
Prefix(t, k) == SubSeq(t, 1, Min(k, Len(t)))

Suffix(t, k) == SubSeq(t, Max(1, Len(t) - k + 1), Len(t))

\* Lines 96-102: full_text[i * chunk_size : min((i + 1) * chunk_size, len)]
NumChunks(t) == (Len(t) + text_chunk_size - 1) \div text_chunk_size

ChunkText(t, i) ==
    SubSeq(t, i * text_chunk_size + 1, Min((i + 1) * text_chunk_size, Len(t)))

\* The document's fields and its text_chunks subcollection (chunk_<i> -> text).
EmptyChunks == [i \in {} |-> <<>>]

EmptyStore ==
    [extracted_text |-> <<>>, text_truncated |-> FALSE, full_text_size |-> NoNum,
     chunks |-> EmptyChunks]

\* Lines 77-114: the pieces are set one by one, the pieces of an earlier
\* text that the new text does not reach stay; document.update merges.
FS_update_text(store, t) ==
    IF Len(t) > OverflowLimit
    THEN [extracted_text |-> Prefix(t, SummaryLen) \o TruncationMarker \o Suffix(t, SummaryLen),
          text_truncated |-> TRUE,
          full_text_size |-> Len(t),
          chunks |-> [i \in DOMAIN store.chunks \cup 0..(NumChunks(t) - 1) |->
                         IF i < NumChunks(t) THEN ChunkText(t, i) ELSE store.chunks[i]]]
    ELSE [store EXCEPT !.extracted_text = t]

RECURSIVE JoinChunks(_, _)
\* Lines 259-266: the pieces in the order of chunk_index, concatenated.
JoinChunks(chunks, indices) ==
    IF indices = {} THEN <<>>
    ELSE LET i == CHOOSE x \in indices : \A y \in indices : x <= y
         IN chunks[i] \o JoinChunks(chunks, indices \ {i})

\* Lines 240-275
FS_get_full_text(store) ==
    IF store.text_truncated THEN JoinChunks(store.chunks, DOMAIN store.chunks)
    ELSE store.extracted_text

\* Lines 99-110 without line 115: the pieces are set, then document.update
\* raises and the call returns False (lines 118-120).
FS_update_text_failing(store, t) ==
    IF Len(t) > OverflowLimit
    THEN [store EXCEPT !.chunks = FS_update_text(store, t).chunks]
    ELSE store

NoText ==
    [store |-> EmptyStore, written |-> <<>>, got |-> <<>>, writes |-> 0, reads |-> 0,
     failed |-> FALSE]

\* update_report(id, {"extracted_text": t}) on the existing document.
WriteText(t) ==
    /\ textdoc.writes < MaxWrites
    /\ textdoc' = [textdoc EXCEPT !.store = FS_update_text(@, t), !.written = t,
                            !.writes = @ + 1, !.reads = 0]
    /\ UNCHANGED <<pipeline_vars, ai, adapters>>

\* update_report(id, {"extracted_text": t}) whose document.update raises.
WriteTextFails(t) ==
    /\ textdoc.writes < MaxWrites
    /\ textdoc' = [textdoc EXCEPT !.store = FS_update_text_failing(@, t),
                            !.writes = @ + 1, !.reads = 0, !.failed = TRUE]
    /\ UNCHANGED <<pipeline_vars, ai, adapters>>

\* get_full_text(id)
ReadFullText ==
    /\ textdoc.writes > 0
    /\ textdoc.reads = 0
    /\ textdoc' = [textdoc EXCEPT !.got = FS_get_full_text(textdoc.store), !.reads = 1]
    /\ UNCHANGED <<pipeline_vars, ai, adapters>>

(***************************************************************************)
(* The same adapter calls made in mock mode and in remote mode, side by    *)
(* side.  A caller's dict is one of the objects P and R of the heap.       *)
(***************************************************************************)
MaxCalls == 3

EmptyDocs == [x \in {} |-> Blank]

EmptyRefs == [x \in {} |-> Ref("r1", "P")]

NewHeap(remote) ==
    [db |-> remote, obj |-> [id \in Ids |-> [P |-> Blank, R |-> Blank]],
     REPORTS |-> <<>>, mock_reports |-> EmptyRefs, docs |-> EmptyDocs]

Result(op, ok, rec) == [op |-> op, ok |-> ok, rec |-> rec]

NoCalls ==
    [mock |-> NewHeap(FALSE), remote |-> NewHeap(TRUE),
     res_mock |-> Result("none", TRUE, Blank),
     res_remote |-> Result("none", TRUE, Blank), calls |-> 0]

AdapterStatuses == {"uploaded", "failed"}

\* A dict of the caller that the mock store does not hold.
FreshObject(h, id) ==
    IF id \in DOMAIN h.mock_reports /\ h.mock_reports[id].o = "P" THEN "R" ELSE "P"

save_report(h, id, status) ==
    LET o == FreshObject(h, id)
        h1 == [h EXCEPT !.obj[id][o] = [Blank EXCEPT !.status = status]]
    IN [h |-> FS_save_report(h1, id, Ref(id, o)), res |-> Result("save", TRUE, Blank)]

update_report(h, id, status) ==
    [h |-> FS_update_report(h, id, [status |-> status]),
     res |-> Result("update", FS_update_ok(h, id), Blank)]

get_report(h, id) ==
    [h |-> h,
     res |-> IF FS_exists(h, id) THEN Result("get", TRUE, FS_get_report(h, id))
             ELSE Result("get", FALSE, Blank)]

\* get_report, then the caller assigns report["error"] on what it got; the
\* result is what the next get_report returns.
get_and_modify(h, id, error) ==
    LET h1 == IF FS_exists(h, id) /\ ~h.db
              THEN Mutate(h, h.mock_reports[id], [error |-> error])
              ELSE h
    IN [h |-> h1, res |-> get_report(h1, id).res]

delete_report(h, id) ==
    [h |-> FS_delete_report(h, id), res |-> Result("delete", FS_delete_ok(h, id), Blank)]

\* One call, made on both adapters.
BothCall(m, r) ==
    /\ adapters.calls < MaxCalls
    /\ adapters' = [mock |-> m.h, remote |-> r.h, res_mock |-> m.res,
                    res_remote |-> r.res, calls |-> adapters.calls + 1]
    /\ UNCHANGED <<pipeline_vars, ai, textdoc>>

AdapterSave(id, status) ==
    BothCall(save_report(adapters.mock, id, status), save_report(adapters.remote, id, status))

AdapterUpdate(id, status) ==
    BothCall(update_report(adapters.mock, id, status),
             update_report(adapters.remote, id, status))

AdapterGet(id) ==
    BothCall(get_report(adapters.mock, id), get_report(adapters.remote, id))

AdapterGetAndModify(id, error) ==
    BothCall(get_and_modify(adapters.mock, id, error),
             get_and_modify(adapters.remote, id, error))

AdapterDelete(id) ==
    BothCall(delete_report(adapters.mock, id), delete_report(adapters.remote, id))

(***************************************************************************)
(* reports.py: update_report_status, called by PUT /reports/{id}/status    *)
(* and, as a plain coroutine, by every stage.  Its parameter `status`      *)
(* shadows fastapi's status module, so both of its `raise HTTPException(   *)
(* status_code=status.HTTP_...)` raise AttributeError instead.             *)
(***************************************************************************)
StatusAllowed(status) == status \in valid_statuses

\* An update that writes the status and drops the message.
StatusOnly(status, error) == [status |-> status]

StatusUpdate(status, error) ==
    IF error # NoVal THEN [status |-> status, error |-> error]
    ELSE [status |-> status]

update_report_status(h, id, status, error) ==
    IF ~StatusAllowed(status) THEN [h |-> h, raised |-> TRUE]
    ELSE IF ~FS_exists(h, id) /\ FindInReports(h, id) = 0
    THEN [h |-> h, raised |-> TRUE]
    ELSE
        LET upd == StatusUpdate(status, error)
            \* report["status"] = status; report["error"] = error
            h1 == IF FS_exists(h, id)
                  THEN (IF h.db THEN h ELSE Mutate(h, h.mock_reports[id], upd))
                  ELSE Mutate(h, h.REPORTS[FindInReports(h, id)], upd)
            h2 == FS_update_report(h1, id, upd)
            i == FindInReports(h2, id)
            h3 == IF i # 0 THEN Mutate(h2, h2.REPORTS[i], upd) ELSE h2
        IN [h |-> h3, raised |-> FALSE]

\* reports.py: update_report_analysis
update_report_analysis(h, id, analysis) ==
    LET upd == [analysis |-> analysis]
        h1 == FS_update_report(h, id, upd)
        i == FindInReports(h1, id)
    IN IF i # 0 THEN Mutate(h1, h1.REPORTS[i], upd) ELSE h1

(***************************************************************************)
(* POST /reports/upload                                                    *)
(***************************************************************************)
\* File names, as character sequences.
FileNames ==
    { <<"a", ".", "p", "d", "f">>,
      <<"a", ".", "d", "o", "c", "x">>,
      <<"a", ".", "p", "d", "f", "x">>,
      <<"p", "d", "f">> }

PdfSuffix == <<".", "p", "d", "f">>

\* str.endswith
EndsWith(s, suffix) ==
    /\ Len(s) >= Len(suffix)
    /\ SubSeq(s, Len(s) - Len(suffix) + 1, Len(s)) = suffix

\* A check that looks for ".pdf" anywhere in the name.
ContainsPdf(name) ==
    \E i \in 1..(Len(name) - Len(PdfSuffix) + 1) :
        SubSeq(name, i, i + Len(PdfSuffix) - 1) = PdfSuffix

FileNameAccepted(name) == EndsWith(name, PdfSuffix)

\* What the client is answered: the handler, the HTTP code and, where the
\* code builds it from the record, the detail of the error.
Response(op, code) == [op |-> op, code |-> code, detail |-> NoVal]

\* min(99, int((file_size / max_file_size) * 100))
Progress(file_size) ==
    LET p == (file_size * 100) \div max_file_size
    IN IF p < 99 THEN p ELSE 99

NoName == <<>>

IdleUpload == [pc |-> "idle", file_size |-> 0, code |-> 0, name |-> NoName]

\* Lines 52-98: the check of the file name, then everything up to the first
\* `await file.read`.  uuid4 gives an id no upload has used.
UploadRequest(name) ==
    IF ~FileNameAccepted(name)
    THEN /\ reqs < MaxRequests
         /\ reqs' = reqs + 1
         /\ resp' = Response("upload", 400)
         /\ UNCHANGED <<db, obj, REPORTS, mock_reports, docs, disk, up, ext, large, an, ai, textdoc, adapters>>
    ELSE \E id \in Ids :
         /\ up[id].pc = "idle"
         /\ LET P == Ref(id, "P")
                h0 == [Heap EXCEPT !.obj[id].P =
                           [Blank EXCEPT !.status = "uploading", !.progress = 0]]
                h1 == [h0 EXCEPT !.REPORTS = Append(@, P)]
                h2 == FS_save_report(h1, id, P)
            IN SetHeap(h2)
         /\ disk' = disk \cup {<<id, "pdf">>}
         /\ up' = [up EXCEPT ![id] = [pc |-> "reading", file_size |-> 0,
                                      code |-> 0, name |-> name]]
         /\ UNCHANGED <<ext, large, an, resp, reqs, ai, textdoc, adapters>>

\* Lines 126-140: the check of the size limit after a chunk.  os.remove and
\* REPORTS.remove raise when a DELETE took the file or the entry first; the
\* exception leaves the loop as a 500.
LimitExceeded(file_size) == file_size > max_file_size

UploadCheckLimit(id, h, file_size) ==
    IF ~LimitExceeded(file_size)
    THEN /\ SetHeap(h)
         /\ up' = [up EXCEPT ![id].pc = "reading", ![id].file_size = file_size]
         /\ UNCHANGED disk
    ELSE IF <<id, "pdf">> \notin disk
    THEN /\ SetHeap(h)
         /\ up' = [up EXCEPT ![id].pc = "done", ![id].file_size = file_size,
                             ![id].code = 500]
         /\ UNCHANGED disk
    ELSE LET hits == {i \in 1..Len(h.REPORTS) : h.REPORTS[i] = Ref(id, "P")}
         IN /\ disk' = disk \ {<<id, "pdf">>}
            /\ IF hits = {}
               THEN /\ SetHeap(h)
                    /\ up' = [up EXCEPT ![id].pc = "done", ![id].file_size = file_size,
                                        ![id].code = 500]
               ELSE /\ SetHeap(FS_delete_report(
                          [h EXCEPT !.REPORTS =
                              RemoveAt(@, CHOOSE i \in hits : \A j \in hits : i <= j)],
                          id))
                    /\ up' = [up EXCEPT ![id].pc = "done", ![id].file_size = file_size,
                                        ![id].code = 413]

\* Lines 103-123: a chunk was read and written.
UploadChunk(id) ==
    /\ up[id].pc = "reading"
    /\ LET file_size == up[id].file_size + chunk_size
       IN IF file_size % ProgressEvery < chunk_size
          THEN LET upd == [progress |-> Progress(file_size)]
                   h1 == FS_update_report(Heap, id, upd)
                   h2 == Mutate(h1, Ref(id, "P"), upd)
               IN /\ SetHeap(h2)
                  /\ up' = [up EXCEPT ![id].pc = "sleeping", ![id].file_size = file_size]
                  /\ UNCHANGED disk
          ELSE UploadCheckLimit(id, Heap, file_size)
    /\ UNCHANGED <<ext, large, an, resp, reqs, ai, textdoc, adapters>>

\* Line 123: asyncio.sleep(0.1) is over.
UploadWake(id) ==
    /\ up[id].pc = "sleeping"
    /\ UploadCheckLimit(id, Heap, up[id].file_size)
    /\ UNCHANGED <<ext, large, an, resp, reqs, ai, textdoc, adapters>>

\* A timeout that leaves the loop as an error does.
UploadTimeoutAborts(id) ==
    /\ up[id].pc = "reading"
    /\ up' = [up EXCEPT ![id].pc = "done", ![id].code = 500]
    /\ UNCHANGED <<db, obj, REPORTS, mock_reports, docs, disk, ext, large, an, resp, reqs, ai, textdoc, adapters>>

\* Lines 141-144: asyncio.TimeoutError; the loop reads again.
UploadReadTimeout(id) ==
    /\ up[id].pc = "reading"
    /\ UNCHANGED vars

\* Lines 145-158: file.read or buffer.write raised; 500, nothing is undone.
UploadIOError(id) ==
    /\ up[id].pc = "reading"
    /\ up' = [up EXCEPT ![id].pc = "done", ![id].code = 500]
    /\ UNCHANGED <<db, obj, REPORTS, mock_reports, docs, disk, ext, large, an, resp, reqs, ai, textdoc, adapters>>

IsLarge(file_size) == file_size > LargeThreshold

\* Lines 104-105 and 149-193: the empty chunk ends the loop, and the rest of
\* the handler has no await.
UploadFinish(id) ==
    /\ up[id].pc = "reading"
    /\ LET file_size == up[id].file_size
           R == Ref(id, "R")
           report == [status |-> "uploaded", file_size_mb |-> file_size]
           h0 == [Heap EXCEPT !.obj[id].R = Merge(Blank, report)]
           i == FindInReports(h0, id)
           h1 == IF i # 0 THEN [h0 EXCEPT !.REPORTS[i] = R] ELSE h0
           h2 == FS_update_report(h1, id, report)
       IN /\ SetHeap(h2)
          /\ IF IsLarge(file_size)
             THEN /\ large' = [large EXCEPT ![id].pc = "scheduled"]
                  /\ UNCHANGED ext
             ELSE /\ ext' = [ext EXCEPT ![id] = "scheduled"]
                  /\ UNCHANGED large
    /\ up' = [up EXCEPT ![id].pc = "done", ![id].code = 201]
    /\ UNCHANGED <<disk, an, resp, reqs, ai, textdoc, adapters>>

(***************************************************************************)
(* Background stages.  A stage's `except Exception` handler calls          *)
(* update_report_status(id, "failed", str(e)); when that call raises too,  *)
(* the exception leaves the task.                                          *)
(***************************************************************************)
\* A handler that logs the exception and returns.
StageQuiet(h, id, msg) == [h |-> h, pc |-> "done"]

StageFail(h, id, msg) ==
    LET r == update_report_status(h, id, "failed", msg)
    IN [h |-> r.h, pc |-> IF r.raised THEN "raised" ELSE "done"]

\* The page counts of the uploaded documents.
PageCounts == {0, MaxPages}

\* The page of a document whose extraction raises: none, the first, the last.
BadPages(n) == {NoNum} \cup ({0, n - 1} \cap 0..(n - 1))

\* extract_text_only, lines 469-565.  The branch of lines 487-528 needs
\* file_size_mb > 10, and the task is only created for files of at most 10 MB.
\* readable: the PDF opens; bad: the page whose extract_text raises (NoNum:
\* none), which PDFProcessor.extract_text_from_pdf (pdf_processor.py lines
\* 42-60) re-raises; writable: the text blob can be written.  The whole task
\* has no suspending await.
ExtractTextOnly(id, n, bad, readable, writable) ==
    /\ ext[id] = "scheduled"
    /\ LET r0 == update_report_status(Heap, id, "processing", ExtractingMsg)
           r == IF r0.raised
                THEN StageFail(r0.h, id, AttrErrorMsg) @@ [txt |-> FALSE]
                ELSE IF ~FS_exists(r0.h, id)
                THEN StageFail(r0.h, id, AttrErrorMsg) @@ [txt |-> FALSE]
                ELSE IF <<id, "pdf">> \notin disk \/ ~readable \/ bad # NoNum
                THEN StageFail(r0.h, id, ExtractErrorMsg) @@ [txt |-> FALSE]
                ELSE IF ~writable
                THEN StageFail(r0.h, id, WriteErrorMsg) @@ [txt |-> FALSE]
                ELSE LET text_stats == [status |-> "extracted", page_count |-> n]
                         h1 == FS_update_report(r0.h, id, text_stats)
                         i == FindInReports(h1, id)
                         h2 == IF i # 0 THEN Mutate(h1, h1.REPORTS[i], text_stats) ELSE h1
                     IN [h |-> h2, pc |-> "done", txt |-> TRUE]
       IN /\ SetHeap(r.h)
          /\ ext' = [ext EXCEPT ![id] = r.pc]
          /\ disk' = IF r.txt THEN disk \cup {<<id, "txt">>} ELSE disk
    /\ UNCHANGED <<up, large, an, resp, reqs, ai, textdoc, adapters>>

\* A section size without the upper limit.
SectionSizeUnclamped(num_pages) == Max(5, num_pages \div 5)

\* Line 643: min(20, max(5, num_pages // 5))
SectionSize(num_pages) == Min(20, Max(5, num_pages \div 5))

\* Line 673: the pages of a section after which the status is updated.
UpdatingPages(section_start, section_end) ==
    {p \in section_start..(section_end - 1) :
        (p - section_start) % 5 = 0 \/ p = section_end - 1}

\* Lines 650-688: one section, up to its asyncio.sleep(0.5).  bad is the page
\* whose extraction raises (NoNum: none); its status update is skipped with it.
LargeSection(h, id, l) ==
    LET section_end == Min(l.section_start + SectionSize(l.num_pages), l.num_pages)
        r0 == update_report_status(h, id, "processing", SectionMsg)
        r1 == IF UpdatingPages(l.section_start, section_end) \ {l.bad} # {}
              THEN update_report_status(r0.h, id, "processing", PageMsg)
              ELSE r0
    IN IF r0.raised
       THEN LET f == StageFail(r0.h, id, AttrErrorMsg)
            IN [h |-> f.h, l |-> [l EXCEPT !.pc = f.pc]]
       ELSE [h |-> r1.h,
             l |-> [l EXCEPT !.pc = "running",
                             !.section_start = l.section_start + SectionSize(l.num_pages),
                             !.section_count = l.section_count + 1]]

\* A finish that stores the statistics without writing the text blob.
LargeFinishNoBlob(h, id, l, writable) ==
    LET text_stats == [status |-> "extracted", page_count |-> l.num_pages,
                       sections_processed |-> l.section_count]
        h1 == FS_update_report(h, id, text_stats)
        i == FindInReports(h1, id)
        h2 == IF i # 0 THEN Mutate(h1, h1.REPORTS[i], text_stats) ELSE h1
    IN [h |-> h2, l |-> [l EXCEPT !.pc = "done"], txt |-> FALSE]

\* Lines 690-713: the text blob, then the statistics.
LargeFinish(h, id, l, writable) ==
    IF ~writable
    THEN LET f == StageFail(h, id, WriteErrorMsg)
         IN [h |-> f.h, l |-> [l EXCEPT !.pc = f.pc], txt |-> FALSE]
    ELSE LET text_stats == [status |-> "extracted", page_count |-> l.num_pages,
                            sections_processed |-> l.section_count]
             h1 == FS_update_report(h, id, text_stats)
             i == FindInReports(h1, id)
             h2 == IF i # 0 THEN Mutate(h1, h1.REPORTS[i], text_stats) ELSE h1
         IN [h |-> h2, l |-> [l EXCEPT !.pc = "done"], txt |-> TRUE]

NoLarge == [pc |-> "none", num_pages |-> 0, bad |-> NoNum,
            section_start |-> 0, section_count |-> 0]

\* process_large_pdf_in_sections, lines 629-688: from the start of the task
\* to the first sleep (or to the end, for a document without pages).
LargeStart(id, n, bad, readable, writable) ==
    /\ large[id].pc = "scheduled"
    /\ LET l0 == [large[id] EXCEPT !.num_pages = n, !.bad = bad]
           r0 == update_report_status(Heap, id, "processing", BreakingMsg)
           r == IF r0.raised
                THEN LET f == StageFail(r0.h, id, AttrErrorMsg)
                     IN [h |-> f.h, l |-> [large[id] EXCEPT !.pc = f.pc], txt |-> FALSE]
                ELSE IF <<id, "pdf">> \notin disk \/ ~readable
                THEN LET f == StageFail(r0.h, id, ExtractErrorMsg)
                     IN [h |-> f.h, l |-> [large[id] EXCEPT !.pc = f.pc], txt |-> FALSE]
                ELSE IF n = 0
                THEN LargeFinish(r0.h, id, l0, writable)
                ELSE LargeSection(r0.h, id, l0) @@ [txt |-> FALSE]
       IN /\ SetHeap(r.h)
          /\ large' = [large EXCEPT ![id] = r.l]
          /\ disk' = IF r.txt THEN disk \cup {<<id, "txt">>} ELSE disk
    /\ UNCHANGED <<up, ext, an, resp, reqs, ai, textdoc, adapters>>

\* Lines 650-713: the task wakes from the sleep that ends a section.
LargeStep(id, writable) ==
    /\ large[id].pc = "running"
    /\ LET l == large[id]
           r == IF l.section_start < l.num_pages
                THEN LargeSection(Heap, id, l) @@ [txt |-> FALSE]
                ELSE LargeFinish(Heap, id, l, writable)
       IN /\ SetHeap(r.h)
          /\ large' = [large EXCEPT ![id] = r.l]
          /\ disk' = IF r.txt THEN disk \cup {<<id, "txt">>} ELSE disk
    /\ UNCHANGED <<up, ext, an, resp, reqs, ai, textdoc, adapters>>

(***************************************************************************)
(* pdf_processor.py: PDFProcessor.analyze_with_ai and _parse_ai_response.  *)
(* A response text is a sequence of tokens: the braces, a "key": value pair *)
(* for each of the keys, and "x" for any other text.  An analysis object   *)
(* maps each key it holds to where its value comes from.                   *)
(***************************************************************************)
MaxResponseLen == 6

required_keys == {"summary", "key_points", "sentiment", "topics"}

ResponseTokens == {"{", "}", "x"} \cup required_keys

\* Line 201: _generate_mock_analysis
AllKeys == required_keys \cup {"quotes"}

mock_analysis == [k \in AllKeys |-> "mock"]

\* str.find and str.rfind, as 0-based indices, -1 when absent.
Find(text, tok) ==
    LET hits == {i \in 1..Len(text) : text[i] = tok}
    IN IF hits = {} THEN -1 ELSE (CHOOSE i \in hits : \A j \in hits : i <= j) - 1

RFind(text, tok) ==
    LET hits == {i \in 1..Len(text) : text[i] = tok}
    IN IF hits = {} THEN -1 ELSE (CHOOSE i \in hits : \A j \in hits : i >= j) - 1

\* json.loads of text[json_start:json_end], which begins with "{" and ends
\* with "}": an object of pairs, or JSONDecodeError.
JsonLoadsOk(json_str) ==
    \A i \in 2..(Len(json_str) - 1) : json_str[i] \in required_keys

json_loads(json_str) ==
    IF JsonLoadsOk(json_str)
    THEN [raised |-> FALSE,
          value |-> [k \in {json_str[i] : i \in 2..(Len(json_str) - 1)} |-> "model"]]
    ELSE [raised |-> TRUE, value |-> [k \in {} |-> "model"]]

\* A parser that returns the decoded object as it is.
NoBackfill(analysis) == analysis

\* Lines 177-181: a missing required key is taken from the mock analysis.
Backfill(analysis) ==
    [k \in DOMAIN analysis \cup required_keys |->
        IF k \in DOMAIN analysis THEN analysis[k] ELSE mock_analysis[k]]

\* Lines 167-190: _parse_ai_response; `except json.JSONDecodeError` returns
\* the mock analysis.
parse_ai_response(response_text) ==
    LET json_start == Find(response_text, "{")
        json_end == RFind(response_text, "}") + 1
        json_str == SubSeq(response_text, json_start + 1, json_end)
    IN IF json_start >= 0 /\ json_end > json_start
       THEN LET j == json_loads(json_str)
            IN IF j.raised THEN [raised |-> FALSE, analysis |-> mock_analysis]
               ELSE [raised |-> FALSE, analysis |-> Backfill(j.value)]
       ELSE [raised |-> FALSE, analysis |-> mock_analysis]

\* What the call of the model does: no API key, an exception, or a text.
ModelOutcomes ==
    {[kind |-> "no_key", text |-> <<>>], [kind |-> "raises", text |-> <<>>]}
    \cup {[kind |-> "text", text |-> t] :
            t \in UNION {[1..n -> ResponseTokens] : n \in 0..MaxResponseLen}}

\* Line 139: model.generate_content(prompt)
generate_content(outcome) ==
    [raised |-> outcome.kind = "raises", text |-> outcome.text]

\* Lines 79-155: analyze_with_ai; `except Exception` returns the mock analysis.
analyze_with_ai(outcome) ==
    IF outcome.kind = "no_key" THEN [raised |-> FALSE, analysis |-> mock_analysis]
    ELSE LET g == generate_content(outcome)
             p == parse_ai_response(g.text)
         IN IF g.raised \/ p.raised
            THEN [raised |-> FALSE, analysis |-> mock_analysis]
            ELSE p

NoCall == [called |-> FALSE, outcome |-> [kind |-> "no_key", text |-> <<>>],
           raised |-> FALSE, analysis |-> mock_analysis]

AnalyzeWithAI(outcome) ==
    /\ ~ai.called
    /\ ai' = [called |-> TRUE, outcome |-> outcome] @@ analyze_with_ai(outcome)
    /\ UNCHANGED <<pipeline_vars, textdoc, adapters>>

\* The analysis a record holds: the fallback object, one from the model, or
\* one a client sent.
AnalysisTag(analysis) == IF analysis = mock_analysis THEN "fallback" ELSE "model"

\* Two outcomes of the model for the stage: a failure and a response.
StageOutcomes ==
    {[kind |-> "raises", text |-> <<>>],
     [kind |-> "text", text |-> <<"{", "summary", "}">>]}

(***************************************************************************)
(* analyze_pdf_async, lines 567-615.  Nothing in it suspends.              *)
(***************************************************************************)
AnalyzePdfAsync(id, has_text, readable, outcome) ==
    /\ an[id].pending > 0
    /\ LET r0 == update_report_status(Heap, id, "analyzing", AnalyzingMsg)
           blob == <<id, "txt">> \in disk /\ has_text
           r == IF r0.raised THEN StageFail(r0.h, id, AttrErrorMsg)
                ELSE IF ~blob /\ (<<id, "pdf">> \notin disk \/ ~readable)
                THEN StageFail(r0.h, id, ExtractErrorMsg)
                ELSE IF has_text
                THEN LET a == analyze_with_ai(outcome)
                         h1 == update_report_analysis(r0.h, id, AnalysisTag(a.analysis))
                         r1 == update_report_status(h1, id, "completed", NoVal)
                     IN IF r1.raised THEN StageFail(r1.h, id, AttrErrorMsg)
                        ELSE [h |-> r1.h, pc |-> "done"]
                ELSE LET r1 == update_report_status(r0.h, id, "failed", NoTextMsg)
                     IN IF r1.raised THEN StageFail(r1.h, id, AttrErrorMsg)
                        ELSE [h |-> r1.h, pc |-> "done"]
       IN /\ SetHeap(r.h)
          /\ an' = [an EXCEPT ![id] = [pending |-> @.pending - 1,
                                       raised |-> @.raised \/ r.pc = "raised"]]
    /\ UNCHANGED <<disk, up, ext, large, resp, reqs, ai, textdoc, adapters>>

(***************************************************************************)
(* Client requests other than upload.  Each handler runs without           *)
(* suspending.                                                             *)
(***************************************************************************)
\* A check that also lets a record in processing through.
ReadyOrProcessing(status) == status \in {"extracted", "uploaded", "processing"}

ReadyForAnalysis(status) == status \in {"extracted", "uploaded"}

FileNotFoundMsg == "Report file not found"

\* Lines 431-435: "Report is not ready for analysis. Current status: ..."
NotReady(status) == [Response("analyze", 400) EXCEPT !.detail = status]

\* POST /reports/{id}/analyze, lines 410-467
AnalyzeReport(id) ==
    /\ reqs < MaxRequests
    /\ reqs' = reqs + 1
    /\ IF ~FS_exists(Heap, id)
       THEN /\ resp' = Response("analyze", 404)
            /\ UNCHANGED <<db, obj, REPORTS, mock_reports, docs, an>>
       ELSE IF ~ReadyForAnalysis(FS_get_report(Heap, id).status)
       THEN /\ resp' = NotReady(FS_get_report(Heap, id).status)
            /\ UNCHANGED <<db, obj, REPORTS, mock_reports, docs, an>>
       ELSE IF <<id, "pdf">> \notin disk
       THEN /\ resp' = [Response("analyze", 400) EXCEPT !.detail = FileNotFoundMsg]
            /\ UNCHANGED <<db, obj, REPORTS, mock_reports, docs, an>>
       ELSE /\ an' = [an EXCEPT ![id].pending = @ + 1]
            /\ LET r0 == update_report_status(Heap, id, "analyzing", NoVal)
                   r1 == update_report_status(r0.h, id, "failed", AttrErrorMsg)
               IN IF r0.raised
                  THEN /\ SetHeap(r1.h)
                       /\ resp' = Response("analyze", 500)
                  ELSE /\ SetHeap(r0.h)
                       /\ resp' = Response("analyze", 200)
    /\ UNCHANGED <<disk, up, ext, large, ai, textdoc, adapters>>

\* PUT /reports/{id}/status, lines 255-304.  The AttributeError is not
\* handled: the client gets a 500.
PutStatusValues == {"uploaded", "completed", "failed", "analyzing"}

PutStatus(id, status, error) ==
    /\ reqs < MaxRequests
    /\ reqs' = reqs + 1
    /\ LET r == update_report_status(Heap, id, status, error)
       IN /\ SetHeap(r.h)
          /\ resp' = Response("put_status", IF r.raised THEN 500 ELSE 200)
    /\ UNCHANGED <<disk, up, ext, large, an, ai, textdoc, adapters>>

EmptyUpd == [f \in {} |-> NoVal]

Field(present, f, v) == IF present THEN (f :> v) ELSE EmptyUpd

\* PUT /reports/{id}, lines 306-350.  ReportUpdate.status is any string.
PutReportValues == {"completed", "bogus", ""}

PutReport(id, status, analysis, error) ==
    /\ reqs < MaxRequests
    /\ reqs' = reqs + 1
    /\ IF ~FS_exists(Heap, id) /\ FindInReports(Heap, id) = 0
       THEN /\ resp' = Response("put", 404)
            /\ UNCHANGED <<db, obj, REPORTS, mock_reports, docs>>
       ELSE LET h == Heap
                update_data == (("status" :> status)
                                @@ Field(analysis # NoVal, "analysis", analysis))
                               @@ Field(error # NoVal, "error", error)
                memory_data == (Field(status # "", "status", status)
                                @@ Field(analysis # NoVal, "analysis", analysis))
                               @@ Field(error # NoVal, "error", error)
                h1 == IF FS_exists(h, id)
                      THEN (IF h.db THEN h ELSE Mutate(h, h.mock_reports[id], update_data))
                      ELSE Mutate(h, h.REPORTS[FindInReports(h, id)], update_data)
                h2 == FS_update_report(h1, id, update_data)
                i == FindInReports(h2, id)
                h3 == IF i # 0 THEN Mutate(h2, h2.REPORTS[i], memory_data) ELSE h2
            IN /\ SetHeap(h3)
               /\ resp' = Response("put", 200)
    /\ UNCHANGED <<disk, up, ext, large, an, ai, textdoc, adapters>>

\* GET /reports/{id}, lines 232-253: the code of the response.
get_report_details(h, id) ==
    IF FS_exists(h, id) \/ FindInReports(h, id) # 0 THEN 200 ELSE 404

\* DELETE /reports/{id}, lines 374-408
DeleteReport(id) ==
    /\ reqs < MaxRequests
    /\ reqs' = reqs + 1
    /\ IF ~FS_exists(Heap, id) /\ FindInReports(Heap, id) = 0
       THEN /\ resp' = Response("delete", 404)
            /\ UNCHANGED <<db, obj, REPORTS, mock_reports, docs, disk>>
       ELSE LET h1 == FS_delete_report(Heap, id)
                i == FindInReports(h1, id)
                h2 == IF i # 0 THEN [h1 EXCEPT !.REPORTS = RemoveAt(@, i)] ELSE h1
            IN /\ SetHeap(h2)
               /\ disk' = disk \ {<<id, "pdf">>}
               /\ resp' = Response("delete", 200)
    /\ UNCHANGED <<up, ext, large, an, ai, textdoc, adapters>>

(***************************************************************************)
(* The pipeline                                                            *)
(***************************************************************************)
Init ==
    /\ db \in BOOLEAN
    /\ obj = [id \in Ids |-> [P |-> Blank, R |-> Blank]]
    /\ REPORTS = <<>>
    /\ mock_reports = EmptyRefs
    /\ docs = EmptyDocs
    /\ disk = {}
    /\ up = [id \in Ids |-> IdleUpload]
    /\ ext = [id \in Ids |-> "none"]
    /\ large = [id \in Ids |-> NoLarge]
    /\ an = [id \in Ids |-> [pending |-> 0, raised |-> FALSE]]
    /\ resp = Response("none", 0)
    /\ reqs = 0
    /\ ai = NoCall
    /\ textdoc = NoText
    /\ adapters = NoCalls

ClientErrors == {NoVal, ClientErrorMsg}

ClientAnalyses == {NoVal, "client"}

Upload ==
    \/ \E name \in FileNames : UploadRequest(name)
    \/ \E id \in Ids : UploadChunk(id)
    \/ \E id \in Ids : UploadWake(id)
    \/ \E id \in Ids : UploadReadTimeout(id)
    \/ \E id \in Ids : UploadIOError(id)
    \/ \E id \in Ids : UploadFinish(id)

Stages ==
    \/ \E id \in Ids, n \in PageCounts, readable, writable \in BOOLEAN :
          \E bad \in BadPages(n) : ExtractTextOnly(id, n, bad, readable, writable)
    \/ \E id \in Ids, n \in PageCounts, readable, writable \in BOOLEAN :
          \E bad \in BadPages(n) : LargeStart(id, n, bad, readable, writable)
    \/ \E id \in Ids, writable \in BOOLEAN : LargeStep(id, writable)
    \/ \E id \in Ids, has_text, readable \in BOOLEAN, outcome \in StageOutcomes :
          AnalyzePdfAsync(id, has_text, readable, outcome)

Requests ==
    \/ \E id \in Ids : AnalyzeReport(id)
    \/ \E id \in Ids, status \in PutStatusValues, error \in ClientErrors :
          PutStatus(id, status, error)
    \/ \E id \in Ids, status \in PutReportValues, analysis \in ClientAnalyses :
          PutReport(id, status, analysis, NoVal)
    \/ \E id \in Ids : DeleteReport(id)

Next == Upload \/ Stages \/ Requests

Spec == Init /\ [][Next]_vars

(***************************************************************************)
(* PDFProcessor.analyze_with_ai alone, over every outcome of the model     *)
(* call.                                                                   *)
(***************************************************************************)
InitAI == Init /\ db = FALSE

NextAI == ~ai.called /\ \E outcome \in ModelOutcomes : AnalyzeWithAI(outcome)

SpecAI == InitAI /\ [][NextAI]_vars

(***************************************************************************)
(* The overflow of a long extracted_text into pieces, remote store: up to  *)
(* MaxWrites updates of one document, each followed or not by a read.      *)
(***************************************************************************)
InitText == Init /\ db = TRUE

NextText ==
    \/ \E t \in Texts : WriteText(t)
    \/ \E t \in Texts : WriteTextFails(t)
    \/ ReadFullText

SpecText == InitText /\ [][NextText]_vars

(***************************************************************************)
(* upload_report_pdf with reads that time out, and the client's updates    *)
(* of the record meanwhile.  The stream delivers: a read that is tried     *)
(* again and again gives a chunk or the end of the stream, and a sleep     *)
(* ends.                                                                   *)
(***************************************************************************)
NextUpload ==
    \/ \E name \in FileNames : UploadRequest(name)
    \/ \E id \in Ids : UploadChunk(id)
    \/ \E id \in Ids : UploadWake(id)
    \/ \E id \in Ids : UploadReadTimeout(id)
    \/ \E id \in Ids : UploadFinish(id)
    \/ \E id \in Ids, status \in PutStatusValues, error \in ClientErrors :
          PutStatus(id, status, error)

ReadSucceeds ==
    \E id \in Ids : UploadChunk(id) \/ UploadWake(id) \/ UploadFinish(id)

SpecUpload == Init /\ [][NextUpload]_vars /\ WF_vars(ReadSucceeds)

(***************************************************************************)
(* process_large_pdf_in_sections over every page count up to               *)
(* MaxSectionPages: an upload that goes the large way, then the sections.  *)
(***************************************************************************)
MaxSectionPages == 105

SectionPageCounts == 0..MaxSectionPages

NextSections ==
    \/ \E name \in FileNames : UploadRequest(name)
    \/ \E id \in Ids : UploadChunk(id)
    \/ \E id \in Ids : UploadWake(id)
    \/ \E id \in Ids : UploadFinish(id)
    \/ \E id \in Ids, n \in SectionPageCounts, readable, writable \in BOOLEAN :
          LargeStart(id, n, NoNum, readable, writable)
    \/ \E id \in Ids, writable \in BOOLEAN : LargeStep(id, writable)

SpecSections == Init /\ [][NextSections]_vars

(***************************************************************************)
(* The adapter in its two modes, given the same calls.                     *)
(***************************************************************************)
NextAdapters ==
    \/ \E id \in Ids, status \in AdapterStatuses : AdapterSave(id, status)
    \/ \E id \in Ids, status \in AdapterStatuses : AdapterUpdate(id, status)
    \/ \E id \in Ids : AdapterGet(id)
    \/ \E id \in Ids : AdapterGetAndModify(id, ClientErrorMsg)
    \/ \E id \in Ids : AdapterDelete(id)

SpecAdapters == Init /\ [][NextAdapters]_vars

(***************************************************************************)
(* What the claims speak of                                                *)
(***************************************************************************)
HeapNext ==
    [db |-> db', obj |-> obj', REPORTS |-> REPORTS',
     mock_reports |-> mock_reports', docs |-> docs']

Exists(id) == FS_exists(Heap, id)

StoreStatus(id) == FS_get_report(Heap, id).status

ExistsNext(id) == FS_exists(HeapNext, id)

StoreStatusNext(id) == FS_get_report(HeapNext, id).status

InReports(id) == FindInReports(Heap, id) # 0

\* No handler or stage of the id has anything left to do.
Quiescent(id) ==
    /\ up[id].pc = "done"
    /\ ext[id] # "scheduled"
    /\ large[id].pc \notin {"scheduled", "running"}
    /\ an[id].pending = 0

\* C1: after an upload that created a record, with no further client request,
\* the record's status ends completed or failed: once the upload handler and
\* every scheduled stage have run, the status is terminal.
C1_PipelineEndsTerminal ==
    \A id \in Ids :
        (reqs = 0 /\ Exists(id) /\ Quiescent(id))
            => StoreStatus(id) \in TerminalStatuses

\* C2: once a record's status is completed or failed, no step of any handler
\* or stage changes it to another value.
C2_TerminalStatusStays ==
    [][\A id \in Ids :
         (Exists(id) /\ StoreStatus(id) \in TerminalStatuses /\ ExistsNext(id))
             => StoreStatusNext(id) = StoreStatus(id)]_vars

\* C3: POST /reports/{id}/analyze on an existing record whose status is
\* neither uploaded nor extracted answers 400, schedules no task and leaves
\* the store, REPORTS and every record object as they were.
C3_AnalyzeRejectedUnchanged ==
    [][\A id \in Ids :
         (AnalyzeReport(id) /\ Exists(id)
              /\ StoreStatus(id) \notin {"uploaded", "extracted"})
             => /\ resp' = NotReady(StoreStatus(id))
                /\ UNCHANGED <<obj, REPORTS, mock_reports, docs, disk, an, ext, large>>]_vars

\* C3's case: a record in processing, an analyze request answered 400.
C3_Witness ==
    \E id \in Ids :
        /\ Exists(id)
        /\ StoreStatus(id) = "processing"
        /\ large[id].pc = "running"
        /\ resp = NotReady("processing")
        /\ an[id].pending = 0

\* C4: POST /reports/{id}/analyze on an existing record that is uploaded or
\* extracted and whose file exists answers {id, status: "analyzing"},
\* schedules exactly one summarization task and leaves the status analyzing.
C4_AnalyzeAccepted ==
    [][\A id \in Ids :
         (AnalyzeReport(id) /\ Exists(id)
              /\ StoreStatus(id) \in {"uploaded", "extracted"}
              /\ <<id, "pdf">> \in disk)
             => /\ resp' = Response("analyze", 200)
                /\ an'[id].pending = an[id].pending + 1
                /\ ExistsNext(id)
                /\ StoreStatusNext(id) = "analyzing"]_vars

\* C5: at most one stage of an id is started and not finished: no stage of
\* the id runs while its sectional extraction is suspended between sections.
C5_OneStageAtATime ==
    [][\A id \in Ids :
         large[id].pc = "running"
             => /\ an'[id].pending >= an[id].pending
                /\ ext'[id] = ext[id]]_vars

\* C6: an upload that went over the size limit has answered 413, its file is
\* gone and no record of it is in the store or in REPORTS; a stream of
\* exactly the limit is not answered 413.
C6_OverLimitCleanedUp ==
    \A id \in Ids :
        /\ (up[id].pc = "done" /\ up[id].file_size > max_file_size)
               => /\ up[id].code = 413
                  /\ <<id, "pdf">> \notin disk
                  /\ ~Exists(id)
                  /\ ~InReports(id)
        /\ (up[id].file_size <= max_file_size) => up[id].code # 413

\* C7: an upload whose file name does not end in .pdf is answered 400 and
\* creates no record, writes no file and schedules no task.
C7_BadNameRejected ==
    [][\A name \in FileNames :
         (UploadRequest(name) /\ ~EndsWith(name, PdfSuffix))
             => /\ resp' = Response("upload", 400)
                /\ UNCHANGED <<db, obj, REPORTS, mock_reports, docs, disk,
                               up, ext, large, an>>]_vars

\* C7's case: a rejected upload, and nothing stored.
C7_Witness ==
    /\ resp = Response("upload", 400)
    /\ REPORTS = <<>>
    /\ disk = {}

\* C8: an upload creates its record as uploading before the first chunk, its
\* own steps keep the status until the last chunk, and when it answers 201
\* the record is in the store with status uploaded.
C8_UploadedRecordPresent ==
    [][\A id \in Ids :
         /\ (up[id].pc = "idle" /\ up'[id].pc = "reading")
                => (ExistsNext(id) /\ StoreStatusNext(id) = "uploading")
         /\ ((UploadChunk(id) \/ UploadWake(id)) /\ Exists(id) /\ ExistsNext(id))
                => StoreStatusNext(id) = StoreStatus(id)
         /\ (up[id].code # 201 /\ up'[id].code = 201)
                => (ExistsNext(id) /\ StoreStatusNext(id) = "uploaded")]_vars

\* C9: when a chunk read or write raises, the upload answers with an error
\* and the partly written file is gone.
C9_IOErrorRemovesFile ==
    [][\A id \in Ids :
         UploadIOError(id) => (up'[id].code >= 400 /\ <<id, "pdf">> \notin disk')]_vars

Range(seq) == {seq[i] : i \in 1..Len(seq)}

\* A response that is one object and nothing else, with only required keys.
WellFormed(text) ==
    /\ Len(text) >= 2
    /\ text[1] = "{"
    /\ text[Len(text)] = "}"
    /\ \A i \in 2..(Len(text) - 1) : text[i] \in required_keys

\* C10: analyze_with_ai never raises and its result holds the four required
\* keys; a key the model's response does not give comes from the fallback,
\* and a key of a well-formed response comes from the response.
C10_AnalysisComplete ==
    ai.called =>
        /\ ~ai.raised
        /\ required_keys \subseteq DOMAIN ai.analysis
        /\ \A k \in required_keys :
              IF ai.outcome.kind = "text" /\ k \in Range(ai.outcome.text)
              THEN ai.analysis[k] \in {"model", "mock"}
              ELSE ai.analysis[k] = "mock"
        /\ (ai.outcome.kind = "text" /\ WellFormed(ai.outcome.text))
              => \A k \in required_keys :
                    ai.analysis[k] =
                        IF k \in Range(ai.outcome.text) THEN "model" ELSE "mock"

\* C10's case: a response that is an object with some of the keys.
C10_Witness ==
    /\ ai.called
    /\ ai.outcome.kind = "text"
    /\ WellFormed(ai.outcome.text)
    /\ \E k \in required_keys : ai.analysis[k] = "model"
    /\ \E k \in required_keys : ai.analysis[k] = "mock"

(***************************************************************************)
(* Stage outcomes                                                          *)
(***************************************************************************)
StoreRec(id) == FS_get_report(Heap, id)

StoreRecNext(id) == FS_get_report(HeapNext, id)

ReportsRec(id) == Deref(Heap, REPORTS[FindInReports(Heap, id)])

ReportsRecNext(id) == Deref(HeapNext, REPORTS'[FindInReports(HeapNext, id)])

ModelFails == [kind |-> "raises", text |-> <<>>]

\* C11: when analyze_pdf_async runs on a record whose text blob exists and the
\* model call fails, the stage leaves the record completed with the fallback
\* analysis.
C11_ModelFailureCompletes ==
    [][\A id \in Ids :
         (/\ \E readable \in BOOLEAN : AnalyzePdfAsync(id, TRUE, readable, ModelFails)
          /\ Exists(id)
          /\ <<id, "txt">> \in disk)
             => /\ ExistsNext(id)
                /\ StoreStatusNext(id) = "completed"
                /\ StoreRecNext(id).analysis = "fallback"]_vars

\* C12: when analyze_pdf_async finds no text at all for a record whose PDF
\* opens, it stores the fallback analysis and does not leave the record failed.
C12_NoTextFallsBack ==
    [][\A id \in Ids :
         (/\ \E outcome \in StageOutcomes : AnalyzePdfAsync(id, FALSE, TRUE, outcome)
          /\ Exists(id)
          /\ <<id, "pdf">> \in disk)
             => /\ ExistsNext(id)
                /\ StoreStatusNext(id) # "failed"
                /\ StoreRecNext(id).analysis = "fallback"]_vars

\* C13: a record carries an error value only while its status is failed, in
\* the store and in REPORTS; here for the records no client request touched.
C13_ErrorOnlyWhenFailed ==
    \A id \in Ids :
        reqs = 0 =>
        /\ (Exists(id) /\ StoreStatus(id) # "failed") => StoreRec(id).error = NoVal
        /\ (InReports(id) /\ ReportsRec(id).status # "failed")
               => ReportsRec(id).error = NoVal

\* C14: when extraction runs again on a record that is failed with an error
\* and succeeds, the record it leaves extracted has no error.
C14_RetryClearsError ==
    [][\A id \in Ids :
         (/\ Exists(id)
          /\ StoreStatus(id) = "failed"
          /\ StoreRec(id).error # NoVal
          /\ ext[id] = "scheduled"
          /\ ext'[id] = "done"
          /\ ExistsNext(id)
          /\ StoreStatusNext(id) = "extracted")
             => StoreRecNext(id).error = NoVal]_vars

\* C15: update_report_status(id, "failed", msg) on an existing record leaves
\* status failed and error msg, changes no other field, adds and removes no
\* record, and a second call with the same arguments changes nothing more.
C15_FailedTwiceIsOnce ==
    [][\A id \in Ids :
         (PutStatus(id, "failed", ClientErrorMsg) /\ Exists(id))
             => LET again == update_report_status(HeapNext, id, "failed", ClientErrorMsg)
                IN /\ ~again.raised
                   /\ again.h = HeapNext
                   /\ resp' = Response("put_status", 200)
                   /\ ExistsNext(id)
                   /\ StoreRecNext(id) =
                         [StoreRec(id) EXCEPT !.status = "failed",
                                              !.error = ClientErrorMsg]
                   /\ Len(REPORTS') = Len(REPORTS)
                   /\ InReports(id) =>
                         ReportsRecNext(id) =
                             [ReportsRec(id) EXCEPT !.status = "failed",
                                                    !.error = ClientErrorMsg]]_vars

\* C15's case: the call was made on a record that had another status.
C15_Witness ==
    \E id \in Ids :
        /\ resp = Response("put_status", 200)
        /\ Exists(id)
        /\ StoreStatus(id) = "failed"
        /\ StoreRec(id).error = ClientErrorMsg
        /\ InReports(id)
        /\ ReportsRec(id).error = ClientErrorMsg
        /\ up[id].pc = "reading"

\* The step is an extraction stage of id in which reading the PDF raises.
ExtractionFails(id) ==
    \/ \E n \in PageCounts, writable \in BOOLEAN :
          \E bad \in BadPages(n) :
              /\ ExtractTextOnly(id, n, bad, FALSE, writable)
    \/ \E n \in PageCounts, writable \in BOOLEAN :
          \E bad \in BadPages(n) : LargeStart(id, n, bad, FALSE, writable)

\* The step is an extraction stage of id in which the PDF was read and
\* writing the text blob raises.
BlobWriteFails(id) ==
    \/ /\ <<id, "pdf">> \in disk
       /\ \E n \in PageCounts : ExtractTextOnly(id, n, NoNum, TRUE, FALSE)
    \/ /\ <<id, "pdf">> \in disk
       /\ \E bad \in BadPages(0) : LargeStart(id, 0, bad, TRUE, FALSE)
    \/ /\ large[id].pc = "running"
       /\ large[id].section_start >= large[id].num_pages
       /\ LargeStep(id, FALSE)

FailedWith(rec, msg) == rec.status = "failed" /\ rec.error = msg

C17_NoStageRaises ==
    \A id \in Ids :
        /\ ext[id] # "raised"
        /\ large[id].pc # "raised"
        /\ ~an[id].raised

\* C18: a record is extracted only with its text blob on disk, and an
\* extraction whose blob write fails leaves the record failed.
C18_BlobBeforeExtracted ==
    [][\A id \in Ids :
         /\ (ExistsNext(id) /\ StoreStatusNext(id) = "extracted")
                => <<id, "txt">> \in disk'
         /\ (InReports(id)' /\ ReportsRecNext(id).status = "extracted")
                => <<id, "txt">> \in disk'
         /\ (BlobWriteFails(id) /\ Exists(id))
                => (ExistsNext(id) /\ StoreStatusNext(id) = "failed"
                      /\ <<id, "txt">> \notin disk')]_vars

\* C18's case: the sectional extraction wrote the blob and stored the
\* statistics.
C18_Witness ==
    \E id \in Ids :
        /\ large[id].pc = "done"
        /\ Exists(id)
        /\ StoreStatus(id) = "extracted"
        /\ StoreRec(id).sections_processed > 0
        /\ <<id, "txt">> \in disk

\* C19: a page whose extraction fails does not make the record failed: the
\* single-pass extraction of a PDF that opens, with one such page, leaves the
\* record extracted.
C19_PageFailureTolerated ==
    [][\A id \in Ids :
         (/\ \E n \in PageCounts : \E bad \in BadPages(n) \ {NoNum} :
                ExtractTextOnly(id, n, bad, TRUE, TRUE)
          /\ Exists(id)
          /\ <<id, "pdf">> \in disk)
             => (ExistsNext(id) /\ StoreStatusNext(id) = "extracted")]_vars

\* The pieces of t are NumChunks(t) slices of at most text_chunk_size
\* characters that cover t in order, and the inline value is the summary.
StoredInPieces(store, t) ==
    /\ store.text_truncated
    /\ store.full_text_size = Len(t)
    /\ store.extracted_text =
          Prefix(t, SummaryLen) \o TruncationMarker \o Suffix(t, SummaryLen)
    /\ DOMAIN store.chunks = 0..(NumChunks(t) - 1)
    /\ \A i \in DOMAIN store.chunks : Len(store.chunks[i]) <= text_chunk_size
    /\ JoinChunks(store.chunks, DOMAIN store.chunks) = t

\* C20: after update_report(id, {extracted_text: T}) on an existing remote
\* record, get_full_text(id) is T; a T over the overflow limit is stored as
\* ceil(len/size) contiguous pieces and a summary, a shorter one inline.
C20_FullTextRoundTrip ==
    [][\A t \in Texts :
         WriteText(t)
             => /\ FS_get_full_text(textdoc'.store) = t
                /\ Len(t) > OverflowLimit => StoredInPieces(textdoc'.store, t)
                /\ Len(t) <= OverflowLimit => textdoc'.store.extracted_text = t]_vars

\* C21: given the same calls, the adapter in mock mode and the adapter in
\* remote mode return the same results and hold the same records.
C21_ModesAgree ==
    /\ adapters.res_mock = adapters.res_remote
    /\ FS_get_all_reports(adapters.mock) = FS_get_all_reports(adapters.remote)

C23_DeleteRemovesBlob ==
    [][\A id \in Ids :
         (DeleteReport(id) /\ Exists(id) /\ <<id, "txt">> \in disk)
             => <<id, "txt">> \notin disk']_vars

\* C24: the status of every stored record, in the store and in REPORTS, is
\* one of the defined states.
C24_StatusDefined ==
    \A id \in Ids :
        /\ Exists(id) => StoreStatus(id) \in DefinedStatuses
        /\ InReports(id) => ReportsRec(id).status \in DefinedStatuses

\* C25: an update_report that returns False leaves the document, its pieces
\* and the full text as they were.
C25_FailedUpdateWritesNothing ==
    [][\A t \in Texts :
         WriteTextFails(t)
             => /\ textdoc'.store = textdoc.store
                /\ FS_get_full_text(textdoc'.store) = FS_get_full_text(textdoc.store)]_vars

Ceil(n, d) == (n + d - 1) \div d

\* C26: in the large path the section size is max(5, min(20, N div 5)), in
\* 5..20; the k-th section starts where the one before ended, at k times the
\* size, and is not empty; at the end the sections reach page N, their number
\* is ceil(N / size) and is stored in sections_processed, and page_count is N.
C26_SectionsCoverPages ==
    \A id \in Ids :
        LET l == large[id]
            N == l.num_pages
            size == SectionSize(N)
        IN /\ \A n \in SectionPageCounts :
                 /\ SectionSize(n) = Max(5, Min(20, n \div 5))
                 /\ SectionSize(n) \in 5..20
           /\ l.pc = "running"
                 => /\ l.section_count >= 1
                    /\ l.section_start = l.section_count * size
                    /\ (l.section_count - 1) * size < N
           /\ (l.pc = "done" /\ Exists(id) /\ StoreStatus(id) = "extracted")
                 => /\ l.section_count * size >= N
                    /\ l.section_count = Ceil(N, size)
                    /\ StoreRec(id).sections_processed = Ceil(N, size)
                    /\ StoreRec(id).page_count = N

\* C26's case: a document of more than 100 pages was walked in sections of 20.
C26_Witness ==
    \E id \in Ids :
        /\ large[id].pc = "done"
        /\ large[id].num_pages > 100
        /\ Exists(id)
        /\ StoreStatus(id) = "extracted"
        /\ StoreRec(id).sections_processed > 5

C28_LastWriteWins ==
    (textdoc.reads = 1 /\ ~textdoc.failed) => textdoc.got = textdoc.written

\* C29: in mock mode REPORTS and the store hold the same ids, and for each id
\* the same status.
C29_ReportsMatchStore ==
    ~db =>
        \A id \in Ids :
            /\ InReports(id) <=> Exists(id)
            /\ Exists(id) => ReportsRec(id).status = StoreStatus(id)

\* C30: when the upload answers 201, the record is in the store and its file
\* is on disk.
C30_CreatedMeansStored ==
    [][\A id \in Ids :
         (up[id].code # 201 /\ up'[id].code = 201)
             => (ExistsNext(id) /\ <<id, "pdf">> \in disk')]_vars

====
